---- MODULE Spec2Model ----
(***************************************************************************)
(* The hangman agentlet (src/src/hang-man/agentlet.js) on top of the       *)
(* Agentlet base element (src/src/lib/agentlet-1.0.0.js).                  *)
(*                                                                         *)
(* A JavaScript string is a sequence of characters; a character is a       *)
(* one-character TLA+ string.  The letter sets hold strings, as the Sets   *)
(* of the source do.  The host (window.agentlet_shell) is present and its  *)
(* sendMessageToShell returns normally in specification Spec.              *)
(***************************************************************************)
EXTENDS Integers, Sequences, FiniteSets, TLC

VARIABLES secretWord, guessedLetters, incorrectLetters, remainingAttempts,
          gameOver, aiTurn, view, sent, handlers, result, lastOp, lastArg

vars == <<secretWord, guessedLetters, incorrectLetters, remainingAttempts,
          gameOver, aiTurn, view, sent, handlers, result, lastOp, lastArg>>

(***************************************************************************)
(* Bounds and input alphabets                                              *)
(***************************************************************************)
MaxWordLen == 2

\* lower-case letters the key pattern /^[a-zñáéíóú]$/ accepts
LowerChars == {"a", "b", "c", "d", "e", "f", "ñ"}
\* upper-case letters, folded by toLowerCase
UpperChars == {"A"}
\* a character that is no letter
OtherChars == {"1"}
Chars == LowerChars \cup UpperChars \cup OtherChars

\* the character the words of every length are made of
WordChars == {"a"}

RECURSIVE SeqsUpTo(_, _)
SeqsUpTo(S, n) ==
    IF n = 0 THEN {<<>>}
    ELSE LET shorter == SeqsUpTo(S, n - 1)
         IN  shorter \cup {Append(s, c) : s \in shorter, c \in S}

\* the words offered as a secret word: the empty word, the words of one
\* repeated letter up to the bound, a word of two distinct letters and
\* two words with an upper-case letter
WordInputs ==
    SeqsUpTo(WordChars, MaxWordLen) \cup {<<"a", "b">>, <<"A">>, <<"A", "b">>}

\* the keys pressed: every single character, the empty string and a
\* string of two characters
KeyInputs == {<<c>> : c \in Chars} \cup {<<>>, <<"a", "b">>}

\* the strings the host offers as a letter
LetterInputs ==
    {<<c>> : c \in {"a", "A", "b", "c", "d", "e", "1"}} \cup {<<>>, <<"a", "b">>}

(***************************************************************************)
(* JavaScript values                                                       *)
(***************************************************************************)
StrVal(s) == [type |-> "string", str |-> s]
Undefined == [type |-> "undefined", str |-> <<>>]
NumVal == [type |-> "number", str |-> <<>>]

\* the params object of a tool call; defined = FALSE is an absent params
Params(w, l) == [defined |-> TRUE, word |-> w, letter |-> l]
NoParams == [defined |-> FALSE, word |-> Undefined, letter |-> Undefined]
EmptyParams == Params(Undefined, Undefined)

WordParamInputs ==
    {NoParams, EmptyParams, Params(NumVal, Undefined)}
        \cup {Params(StrVal(w), Undefined) : w \in WordInputs}

LetterParamInputs ==
    {NoParams, EmptyParams, Params(Undefined, NumVal)}
        \cup {Params(Undefined, StrVal(l)) : l \in LetterInputs}

StartTools == {"startTurnAsUser", "agentlet_startTurnAsUser"}
SubmitTools == {"submitSecretWord", "agentlet_submitSecretWord"}
GuessTools == {"guessLetter", "agentlet_guessLetter"}
ResetTools == {"resetGame", "agentlet_resetGame"}
\* names the switch does not know: a foreign name, and a known name in
\* another case
UnknownTools == {"bogusTool", "GuessLetter"}

\* the value of the message attribute: JSON text that parses to an object
\* (with or without a tool field), to null, to a number, or does not parse
Envelope(j, t, p) == [json |-> j, tool |-> t, params |-> p]

\* every tool under its plain name with every params, and each alias once
ToolEnvelopes ==
    {Envelope("object", t, p) : t \in {"startTurnAsUser", "submitSecretWord"},
                                p \in WordParamInputs}
        \cup {Envelope("object", "guessLetter", p) : p \in LetterParamInputs}
        \cup {Envelope("object", t, p) : t \in {"resetGame"} \cup UnknownTools,
                                         p \in {NoParams, EmptyParams}}
        \cup {Envelope("object", t, Params(StrVal(<<"A", "b">>), Undefined)) :
                t \in {"agentlet_startTurnAsUser", "agentlet_submitSecretWord"}}
        \cup {Envelope("object", "agentlet_guessLetter", Params(Undefined, StrVal(<<"A">>))),
              Envelope("object", "agentlet_resetGame", EmptyParams)}

PlainEnvelopes ==
    {Envelope(j, "", NoParams) : j \in {"object", "null", "number", "invalid"}}

Envelopes == ToolEnvelopes \cup PlainEnvelopes

\* the callback invoked for an attribute other than message
OtherAttributeInputs == {Envelope("object", "resetGame", EmptyParams)}

(***************************************************************************)
(* String functions                                                        *)
(***************************************************************************)
ToLowerChar(c) == IF c = "A" THEN "a" ELSE c

toLowerCase(s) == [i \in 1..Len(s) |-> ToLowerChar(s[i])]

\* String.prototype.includes: sub occurs in s as a substring
includes(s, sub) ==
    \E i \in 0..(Len(s) - Len(sub)) : SubSeq(s, i + 1, i + Len(sub)) = sub

\* /^[a-zñáéíóú]$/.test(key)
KeyPattern(key) == Len(key) = 1 /\ key[1] \in LowerChars

\* secretWord.split('').map(ch => guessed.has(ch) ? ch : '_'), before join
Masked(word, guessed) ==
    [i \in 1..Len(word) |-> IF <<word[i]>> \in guessed THEN word[i] ELSE "_"]

\* secretWord.split('').every(char => guessedLetters.has(char))
Revealed(o) ==
    \A i \in 1..Len(o.secretWord) : <<o.secretWord[i]>> \in o.guessedLetters

(***************************************************************************)
(* The element: its fields (constructor), the view last written to the     *)
(* shadow root, and what the running handler has sent and invoked          *)
(***************************************************************************)
_maxAttempts == 6

\* the object as the running handler sees it
This ==
    [secretWord |-> secretWord, guessedLetters |-> guessedLetters,
     incorrectLetters |-> incorrectLetters,
     remainingAttempts |-> remainingAttempts, gameOver |-> gameOver,
     aiTurn |-> aiTurn, view |-> view, sent |-> sent, handlers |-> handlers]

\* the six fields of the game
GameOf(o) ==
    [secretWord |-> o.secretWord, guessedLetters |-> o.guessedLetters,
     incorrectLetters |-> o.incorrectLetters,
     remainingAttempts |-> o.remainingAttempts, gameOver |-> o.gameOver,
     aiTurn |-> o.aiTurn]

NotRendered ==
    [rendered |-> FALSE, keyboard |-> FALSE, statusText |-> "", fails |-> 0,
     masked |-> <<>>]

constructor ==
    [secretWord |-> <<>>, guessedLetters |-> {}, incorrectLetters |-> {},
     remainingAttempts |-> _maxAttempts, gameOver |-> FALSE, aiTurn |-> FALSE,
     view |-> NotRendered, sent |-> <<>>, handlers |-> <<>>]

\* a callback starts with nothing sent and nothing invoked: sent and
\* handlers hold what the callback that ran last has sent and invoked,
\* result what its tool call returned, lastOp and lastArg which callback it
\* was and its argument
Begin(o) == [o EXCEPT !.sent = <<>>, !.handlers = <<>>]

sendMessageToShell(o, msg) == [o EXCEPT !.sent = Append(@, msg)]

_sendMessage(o, text) ==
    sendMessageToShell(o, [type |-> "message", message |-> text])

render(o) ==
    LET isUserTurn == ~o.aiTurn /\ o.secretWord # <<>> /\ ~o.gameOver
        statusText == IF o.gameOver THEN "Partida terminada"
                      ELSE IF o.aiTurn THEN "Turno de la IA"
                      ELSE IF o.secretWord # <<>> THEN "Turno del usuario"
                      ELSE "Esperando inicio"
    IN  [o EXCEPT !.view =
            [rendered |-> TRUE, keyboard |-> isUserTurn,
             statusText |-> statusText,
             fails |-> _maxAttempts - o.remainingAttempts,
             masked |-> Masked(o.secretWord, o.guessedLetters)]]

onMessageFromShell(o, message) ==
    [o EXCEPT !.handlers = Append(@, [handler |-> "onMessageFromShell",
                                      message |-> message])]

(***************************************************************************)
(* New game and reset                                                      *)
(***************************************************************************)
\* _startGame without the reset of remainingAttempts
_startGame_KeepAttempts(o, word) ==
    render([o EXCEPT !.secretWord = word, !.guessedLetters = {},
                     !.incorrectLetters = {},
                     !.gameOver = FALSE, !.aiTurn = FALSE])

_startGame(o, word) ==
    render([o EXCEPT !.secretWord = word, !.guessedLetters = {},
                     !.incorrectLetters = {},
                     !.remainingAttempts = _maxAttempts,
                     !.gameOver = FALSE, !.aiTurn = FALSE])

\* _startGameAsAI without the two clear() calls
_startGameAsAI_KeepLetters(o, word) ==
    render([o EXCEPT !.secretWord = word,
                     !.remainingAttempts = _maxAttempts,
                     !.gameOver = FALSE, !.aiTurn = TRUE])

_startGameAsAI(o, word) ==
    render([o EXCEPT !.secretWord = word, !.guessedLetters = {},
                     !.incorrectLetters = {},
                     !.remainingAttempts = _maxAttempts,
                     !.gameOver = FALSE, !.aiTurn = TRUE])

\* _resetGame without this._aiTurn = false
_resetGame_KeepTurn(o) ==
    render([o EXCEPT !.secretWord = <<>>, !.guessedLetters = {},
                     !.incorrectLetters = {},
                     !.remainingAttempts = _maxAttempts,
                     !.gameOver = FALSE])

_resetGame(o) ==
    render([o EXCEPT !.secretWord = <<>>, !.guessedLetters = {},
                     !.incorrectLetters = {},
                     !.remainingAttempts = _maxAttempts,
                     !.gameOver = FALSE, !.aiTurn = FALSE])

(***************************************************************************)
(* The human path                                                          *)
(***************************************************************************)
\* _checkGameStatus with some() for every()
_checkGameStatus_Some(o) ==
    IF \E i \in 1..Len(o.secretWord) : <<o.secretWord[i]>> \in o.guessedLetters
    THEN _sendMessage([o EXCEPT !.gameOver = TRUE],
            [text |-> "¡El usuario adivinó correctamente la palabra secreta '${secretWord}'!",
             secretWord |-> o.secretWord])
    ELSE IF o.remainingAttempts <= 0
    THEN _sendMessage([o EXCEPT !.gameOver = TRUE],
            [text |-> "El usuario falló. La palabra secreta era '${secretWord}'.",
             secretWord |-> o.secretWord])
    ELSE o

\* _checkGameStatus with < 0 for <= 0
_checkGameStatus_Strict(o) ==
    IF Revealed(o)
    THEN _sendMessage([o EXCEPT !.gameOver = TRUE],
            [text |-> "¡El usuario adivinó correctamente la palabra secreta '${secretWord}'!",
             secretWord |-> o.secretWord])
    ELSE IF o.remainingAttempts < 0
    THEN _sendMessage([o EXCEPT !.gameOver = TRUE],
            [text |-> "El usuario falló. La palabra secreta era '${secretWord}'.",
             secretWord |-> o.secretWord])
    ELSE o

_checkGameStatus(o) ==
    IF Revealed(o)
    THEN _sendMessage([o EXCEPT !.gameOver = TRUE],
            [text |-> "¡El usuario adivinó correctamente la palabra secreta '${secretWord}'!",
             secretWord |-> o.secretWord])
    ELSE IF o.remainingAttempts <= 0
    THEN _sendMessage([o EXCEPT !.gameOver = TRUE],
            [text |-> "El usuario falló. La palabra secreta era '${secretWord}'.",
             secretWord |-> o.secretWord])
    ELSE o

\* VirtualKeyRefused without the gameOver test
VirtualKeyRefused_NoOver(o) == o.secretWord = <<>> \/ o.aiTurn

\* the guard that opens _handleVirtualKey
VirtualKeyRefused(o) == o.gameOver \/ o.secretWord = <<>> \/ o.aiTurn

\* VirtualKeyTried looking at incorrectLetters only
VirtualKeyTried_IncorrectOnly(o, key) == key \in o.incorrectLetters

\* the letter has been tried before
VirtualKeyTried(o, key) == key \in o.guessedLetters \/ key \in o.incorrectLetters

\* VirtualKeyRecord with the narration decrementing a second time
\* (--this._remainingAttempts in the template)
VirtualKeyRecord_Twice(o, key) ==
    IF includes(o.secretWord, key)
    THEN _sendMessage([o EXCEPT !.guessedLetters = @ \cup {key}],
            [text |-> "El usuario presionó la letra '${key}', y fue correcta.",
             key |-> key])
    ELSE _sendMessage([o EXCEPT !.incorrectLetters = @ \cup {key},
                                !.remainingAttempts = @ - 2],
            [text |-> "El usuario presionó la letra '${key}', y fue incorrecta. Le quedan ${remainingAttempts} intentos.",
             key |-> key, remainingAttempts |-> o.remainingAttempts - 2])

\* an accepted key is recorded as correct or incorrect and narrated
VirtualKeyRecord(o, key) ==
    IF includes(o.secretWord, key)
    THEN _sendMessage([o EXCEPT !.guessedLetters = @ \cup {key}],
            [text |-> "El usuario presionó la letra '${key}', y fue correcta.",
             key |-> key])
    ELSE _sendMessage([o EXCEPT !.incorrectLetters = @ \cup {key},
                                !.remainingAttempts = @ - 1],
            [text |-> "El usuario presionó la letra '${key}', y fue incorrecta. Le quedan ${remainingAttempts} intentos.",
             key |-> key, remainingAttempts |-> o.remainingAttempts - 1])

_handleVirtualKey(o, letter) ==
    LET key == toLowerCase(letter)
    IN  IF VirtualKeyRefused(o) THEN o
        ELSE IF ~KeyPattern(key) THEN o
        ELSE IF VirtualKeyTried(o, key)
        THEN _sendMessage(o,
                [text |-> "El usuario ya había intentado la letra '${key}'. Ignorada.",
                 key |-> key])
        ELSE _checkGameStatus(render(VirtualKeyRecord(o, key)))

(***************************************************************************)
(* The host-driven path.  A method that returns a value yields             *)
(* [this |-> the object afterwards, ret |-> the value returned].           *)
(***************************************************************************)
Return(o, r) == [this |-> o, ret |-> r]

\* !!value
Truthy(v) == v = "true"

\* _checkAIGameStatus narrating the end of the game as _checkGameStatus does
_checkAIGameStatus_Narrating(o) ==
    IF Revealed(o)
    THEN Return(_sendMessage([o EXCEPT !.gameOver = TRUE],
                    [text |-> "¡El usuario adivinó correctamente la palabra secreta '${secretWord}'!",
                     secretWord |-> o.secretWord]),
                [gameOver |-> TRUE, won |-> "true"])
    ELSE IF o.remainingAttempts <= 0
    THEN Return(_sendMessage([o EXCEPT !.gameOver = TRUE],
                    [text |-> "El usuario falló. La palabra secreta era '${secretWord}'.",
                     secretWord |-> o.secretWord]),
                [gameOver |-> TRUE, won |-> "false"])
    ELSE Return(o, [gameOver |-> FALSE, won |-> "undefined"])

\* _checkAIGameStatus with < 0 for <= 0
_checkAIGameStatus_Strict(o) ==
    IF Revealed(o)
    THEN Return([o EXCEPT !.gameOver = TRUE], [gameOver |-> TRUE, won |-> "true"])
    ELSE IF o.remainingAttempts < 0
    THEN Return([o EXCEPT !.gameOver = TRUE], [gameOver |-> TRUE, won |-> "false"])
    ELSE Return(o, [gameOver |-> FALSE, won |-> "undefined"])

_checkAIGameStatus(o) ==
    IF Revealed(o)
    THEN Return([o EXCEPT !.gameOver = TRUE], [gameOver |-> TRUE, won |-> "true"])
    ELSE IF o.remainingAttempts <= 0
    THEN Return([o EXCEPT !.gameOver = TRUE], [gameOver |-> TRUE, won |-> "false"])
    ELSE Return(o, [gameOver |-> FALSE, won |-> "undefined"])

\* AIGuessRefused without the test of gameOver
AIGuessRefused_NoOver(o) == ~o.aiTurn

\* the guard that opens _processAIGuess
AIGuessRefused(o) == o.gameOver \/ ~o.aiTurn

\* AIGuessTried looking at guessedLetters only
AIGuessTried_GuessedOnly(o, letter) == letter \in o.guessedLetters

\* the letter has been tried before
AIGuessTried(o, letter) ==
    letter \in o.guessedLetters \/ letter \in o.incorrectLetters

\* AIGuessRecord with the else lost: a letter of the word is also counted
\* as incorrect
AIGuessRecord_NoElse(o, letter) ==
    IF includes(o.secretWord, letter)
    THEN Return([o EXCEPT !.guessedLetters = @ \cup {letter},
                          !.incorrectLetters = @ \cup {letter},
                          !.remainingAttempts = @ - 1], "correcta")
    ELSE Return([o EXCEPT !.incorrectLetters = @ \cup {letter},
                          !.remainingAttempts = @ - 1], "incorrecta")

\* an accepted letter is recorded as correct or incorrect
AIGuessRecord(o, letter) ==
    IF includes(o.secretWord, letter)
    THEN Return([o EXCEPT !.guessedLetters = @ \cup {letter}], "correcta")
    ELSE Return([o EXCEPT !.incorrectLetters = @ \cup {letter},
                          !.remainingAttempts = @ - 1], "incorrecta")

\* the OK result of an accepted guess
AIGuessResult(o, letter, correctness, statusInfo) ==
    [status |-> "OK",
     message |->
        [text |-> "La IA intentó la letra '${letter}', y fue ${correctness}. Intentos restantes: ${remainingAttempts}.",
         letter |-> letter, correctness |-> correctness,
         remainingAttempts |-> o.remainingAttempts,
         ending |-> IF ~statusInfo.gameOver THEN ""
                    ELSE IF Truthy(statusInfo.won)
                    THEN " ¡La IA adivinó la palabra secreta '${secretWord}'!"
                    ELSE " La IA falló. La palabra secreta era '${secretWord}'."],
     response |->
        [gameOver |-> statusInfo.gameOver,
         won |-> Truthy(statusInfo.won),
         remainingAttempts |-> o.remainingAttempts,
         guessedLetters |-> o.guessedLetters,
         incorrectLetters |-> o.incorrectLetters,
         masked |-> Masked(o.secretWord, o.guessedLetters)]]

_processAIGuess(o, letter) ==
    IF AIGuessRefused(o)
    THEN Return(o, [status |-> "ERROR",
                    message |-> [text |-> "No es el turno de la IA o el juego ha terminado."]])
    ELSE IF AIGuessTried(o, letter)
    THEN Return(o, [status |-> "ERROR",
                    message |-> [text |-> "La letra '${letter}' ya fue intentada.",
                                 letter |-> letter]])
    ELSE LET recorded == AIGuessRecord(o, letter)
             checked == _checkAIGameStatus(render(recorded.this))
         IN  Return(checked.this,
                    AIGuessResult(checked.this, letter, recorded.ret, checked.ret))

(***************************************************************************)
(* Tool dispatch                                                           *)
(***************************************************************************)
\* HasWord without the typeof test
HasWord_Loose(params) == params.defined

\* params && typeof params.word === 'string'
HasWord(params) == params.defined /\ params.word.type = "string"

\* params && typeof params.letter === 'string'
HasLetter(params) == params.defined /\ params.letter.type = "string"

EmptyResponse == [empty |-> TRUE]

\* UnknownTool with the default case falling through to the reset
UnknownTool_Reset(o, toolName) ==
    Return(_resetGame(o),
           [status |-> "OK", message |-> [text |-> "Juego reiniciado."],
            response |-> EmptyResponse])

\* the default case: the tool is none of the recognized names
UnknownTool(o, toolName) ==
    Return(o, [status |-> "ERROR",
               message |-> [text |-> "Tool no reconocida: ${toolName}",
                            toolName |-> toolName]])

onToolCall(o0, toolName, params) ==
    LET o == [o0 EXCEPT !.handlers = Append(@, [handler |-> "onToolCall",
                                                toolName |-> toolName,
                                                params |-> params])]
    IN  IF toolName \in StartTools
        THEN IF HasWord(params)
             THEN Return([_startGame(o, toLowerCase(params.word.str)) EXCEPT !.aiTurn = FALSE],
                         [status |-> "OK",
                          message |-> [text |-> "Juego iniciado. Turno del usuario."],
                          response |-> EmptyResponse])
             ELSE Return(o, [status |-> "ERROR",
                             message |-> [text |-> "Parámetro \"word\" faltante o inválido."]])
        ELSE IF toolName \in GuessTools
        THEN IF HasLetter(params)
             THEN _processAIGuess(o, toLowerCase(params.letter.str))
             ELSE Return(o, [status |-> "ERROR",
                             message |-> [text |-> "Parámetro \"letter\" faltante o inválido."]])
        ELSE IF toolName \in SubmitTools
        THEN IF HasWord(params)
             THEN Return([_startGameAsAI(o, toLowerCase(params.word.str)) EXCEPT !.aiTurn = TRUE],
                         [status |-> "OK",
                          message |-> [text |-> "Juego iniciado. Turno de la IA."],
                          response |-> EmptyResponse])
             ELSE Return(o, [status |-> "ERROR",
                             message |-> [text |-> "Parámetro \"word\" faltante o inválido."]])
        ELSE IF toolName \in ResetTools
        THEN Return(_resetGame(o),
                    [status |-> "OK", message |-> [text |-> "Juego reiniciado."],
                     response |-> EmptyResponse])
        ELSE UnknownTool(o, toolName)

(***************************************************************************)
(* The base element                                                        *)
(***************************************************************************)
\* no tool call has returned a value in the running handler
NoResult == [status |-> "NONE"]

\* IsToolCall without the && parsed.tool
IsToolCall_NoToolTest(newValue) == newValue.json = "object"

\* JSON.parse succeeded and typeof parsed === 'object' && parsed.tool
\* yields a truthy value; null.tool throws and lands in the catch
IsToolCall(newValue) == newValue.json = "object" /\ newValue.tool # ""

attributeChangedCallback(o, name, newValue) ==
    IF name # "message" THEN Return(o, NoResult)
    ELSE IF IsToolCall(newValue)
    THEN LET call == onToolCall(o, newValue.tool, newValue.params)
         IN  Return(sendMessageToShell(call.this,
                        [type |-> "tool_response", tool |-> newValue.tool,
                         params |-> newValue.params, response |-> call.ret]),
                    call.ret)
    ELSE Return(onMessageFromShell(o, newValue), NoResult)

connectedCallback(o) == render(o)

(***************************************************************************)
(* Actions: one per callback the browser or the page can run               *)
(***************************************************************************)
Becomes(o) ==
    /\ secretWord' = o.secretWord
    /\ guessedLetters' = o.guessedLetters
    /\ incorrectLetters' = o.incorrectLetters
    /\ remainingAttempts' = o.remainingAttempts
    /\ gameOver' = o.gameOver
    /\ aiTurn' = o.aiTurn
    /\ view' = o.view
    /\ sent' = o.sent
    /\ handlers' = o.handlers

Init ==
    /\ secretWord = constructor.secretWord
    /\ guessedLetters = constructor.guessedLetters
    /\ incorrectLetters = constructor.incorrectLetters
    /\ remainingAttempts = constructor.remainingAttempts
    /\ gameOver = constructor.gameOver
    /\ aiTurn = constructor.aiTurn
    /\ view = constructor.view
    /\ sent = constructor.sent
    /\ handlers = constructor.handlers
    /\ result = NoResult
    /\ lastOp = "constructor"
    /\ lastArg = [none |-> TRUE]

\* the element is inserted into the document
Connected ==
    /\ lastOp' = "connectedCallback"
    /\ lastArg' = [none |-> TRUE]
    /\ Becomes(connectedCallback(Begin(This)))
    /\ result' = NoResult

\* the host sets an attribute of the element
AttributeChanged(name, newValue) ==
    /\ lastOp' = "attributeChangedCallback"
    /\ lastArg' = [name |-> name, newValue |-> newValue]
    /\ LET done == attributeChangedCallback(Begin(This), name, newValue)
       IN  /\ Becomes(done.this)
           /\ result' = done.ret

\* a click on a key of the letter picker
VirtualKey(letter) ==
    /\ lastOp' = "_handleVirtualKey"
    /\ lastArg' = [letter |-> letter]
    /\ Becomes(_handleVirtualKey(Begin(This), letter))
    /\ result' = NoResult

\* a click on the reset button of the rendered view
ResetClick ==
    /\ view.rendered
    /\ lastOp' = "resetBtn"
    /\ lastArg' = [none |-> TRUE]
    /\ LET done == onToolCall(Begin(This), "agentlet_resetGame", EmptyParams)
       IN  /\ Becomes(done.this)
           /\ result' = done.ret

Next ==
    \/ Connected
    \/ \E newValue \in Envelopes : AttributeChanged("message", newValue)
    \/ \E newValue \in OtherAttributeInputs : AttributeChanged("title", newValue)
    \/ \E letter \in KeyInputs : VirtualKey(letter)
    \/ ResetClick

Spec == Init /\ [][Next]_vars

(***************************************************************************)
(* Properties                                                              *)
(***************************************************************************)
Game == GameOf(This)

\* the tool envelopes that start a game or reset it
NewGameEnvelopes ==
    {env \in ToolEnvelopes : env.tool \in StartTools \cup SubmitTools \cup ResetTools}

\* the tool envelopes that carry a guess
GuessEnvelopes == {env \in ToolEnvelopes : env.tool \in GuessTools}

\* a step of startTurnAsUser, submitSecretWord or resetGame
NewGameStep ==
    \/ ResetClick
    \/ \E env \in NewGameEnvelopes : AttributeChanged("message", env)

\* the running handler answered an accepted guessLetter call
AIGuessAccepted ==
    /\ lastOp = "attributeChangedCallback"
    /\ result.status = "OK"
    /\ result.message.text = "La IA intentó la letra '${letter}', y fue ${correctness}. Intentos restantes: ${remainingAttempts}."

\* the running handler accepted a virtual key
VirtualKeyAccepted ==
    /\ lastOp = "_handleVirtualKey"
    /\ sent # <<>>
    /\ sent[1].message.text \in
          {"El usuario presionó la letra '${key}', y fue correcta.",
           "El usuario presionó la letra '${key}', y fue incorrecta. Le quedan ${remainingAttempts} intentos."}

\* C1: in every reachable state guessedLetters and incorrectLetters are
\* disjoint.
C1_Disjoint == guessedLetters \cap incorrectLetters = {}

\* C1 witness: a game in which both a correct and an incorrect letter have
\* been recorded, on either path
C1_Witness ==
    /\ guessedLetters # {}
    /\ incorrectLetters # {}
    /\ AIGuessAccepted \/ VirtualKeyAccepted

\* C2: in every reachable state remainingAttempts is between 0 and 6; the
\* game is over once it is 0.
C2_AttemptsInRange ==
    /\ remainingAttempts \in 0.._maxAttempts
    /\ remainingAttempts = 0 => gameOver

\* C2 witness: the attempts are exhausted and a further guessLetter call
\* has been refused
C2_Witness ==
    /\ remainingAttempts = 0
    /\ gameOver
    /\ lastOp = "attributeChangedCallback"
    /\ result.status = "ERROR"
    /\ result.message.text = "No es el turno de la IA o el juego ha terminado."

\* C3: no step lowers remainingAttempts by more than 1, and only a step of
\* startTurnAsUser, submitSecretWord or resetGame raises it.
C3_Monotone ==
    [][/\ remainingAttempts' >= remainingAttempts - 1
       /\ remainingAttempts' > remainingAttempts => NewGameStep]_vars

\* C3 witness: a virtual key has been counted as incorrect in a game that
\* goes on
C3_Witness ==
    /\ VirtualKeyAccepted
    /\ remainingAttempts < _maxAttempts
    /\ ~gameOver

\* C4: a guessLetter call made while aiTurn = FALSE, or while secretWord is
\* the empty string, returns an ERROR result and leaves the game unchanged.
C4_GuessNeedsTurnAndWord ==
    [][\A env \in GuessEnvelopes :
          ((~aiTurn \/ secretWord = <<>>) /\ AttributeChanged("message", env))
              => (result'.status = "ERROR" /\ Game' = Game)]_vars

\* C5: while gameOver = TRUE no guessLetter call and no virtual key changes
\* the game; a step that does change it is a step of startTurnAsUser,
\* submitSecretWord or resetGame and leaves a fresh game behind.
C5_FrozenWhenOver ==
    [][gameOver =>
          /\ \A env \in GuessEnvelopes :
                AttributeChanged("message", env) => Game' = Game
          /\ \A letter \in KeyInputs : VirtualKey(letter) => Game' = Game
          /\ \/ Game' = Game
             \/ /\ NewGameStep
                /\ guessedLetters' = {}
                /\ incorrectLetters' = {}
                /\ remainingAttempts' = _maxAttempts
                /\ ~gameOver']_vars

\* C5 witness: in a finished game of the user a key of the picker that had
\* not been tried was pressed, and nothing was recorded or sent
C5_Witness ==
    /\ gameOver
    /\ ~aiTurn
    /\ secretWord # <<>>
    /\ lastOp = "_handleVirtualKey"
    /\ KeyPattern(toLowerCase(lastArg.letter))
    /\ toLowerCase(lastArg.letter) \notin guessedLetters \cup incorrectLetters
    /\ sent = <<>>

\* C6: a guessLetter call whose letter is missing, is no string, or is,
\* lower-cased, already in guessedLetters or incorrectLetters returns an
\* ERROR result and leaves the game unchanged; and the same call made again
\* right after any guessLetter call returns an ERROR result and leaves the
\* game, remainingAttempts included, as the first call left it.
C6_BadOrRepeatedLetter ==
    [][\A env \in GuessEnvelopes :
          AttributeChanged("message", env) =>
              /\ (\/ ~env.params.defined
                  \/ env.params.letter.type # "string"
                  \/ toLowerCase(env.params.letter.str)
                        \in guessedLetters \cup incorrectLetters)
                    => (result'.status = "ERROR" /\ Game' = Game)
              /\ LET again == attributeChangedCallback(Begin(This'), "message", env)
                 IN  /\ again.ret.status = "ERROR"
                     /\ GameOf(again.this) = Game']_vars

\* C6 witness: a guessLetter call was answered with "already tried" in a
\* game that goes on
C6_Witness ==
    /\ lastOp = "attributeChangedCallback"
    /\ result.status = "ERROR"
    /\ result.message.text = "La letra '${letter}' ya fue intentada."
    /\ result.message.letter \in guessedLetters \cup incorrectLetters
    /\ remainingAttempts < _maxAttempts

\* C7: after an accepted guess, on either path, gameOver is TRUE exactly
\* when the word is revealed or no attempt remains; the guessLetter response
\* reports that gameOver, won = TRUE exactly for the revealed word, and the
\* attempts left, so six incorrect letters in a row are answered with
\* gameOver: true, won: false, remainingAttempts: 0.
C7_EndCondition ==
    /\ (AIGuessAccepted \/ VirtualKeyAccepted) =>
          (gameOver <=> (Revealed(This) \/ remainingAttempts = 0))
    /\ AIGuessAccepted =>
          /\ result.response.gameOver = gameOver
          /\ result.response.won = Revealed(This)
          /\ result.response.remainingAttempts = remainingAttempts
          /\ (Cardinality(incorrectLetters) = _maxAttempts /\ guessedLetters = {})
                => /\ result.response.gameOver
                   /\ ~result.response.won
                   /\ result.response.remainingAttempts = 0

\* C7 witness: the sixth incorrect letter in a row has been answered
C7_Witness ==
    /\ AIGuessAccepted
    /\ Cardinality(incorrectLetters) = _maxAttempts
    /\ guessedLetters = {}
    /\ result.response.gameOver
    /\ ~result.response.won

\* the running handler answered a successful startTurnAsUser call
StartAccepted ==
    /\ lastOp = "attributeChangedCallback"
    /\ result.status = "OK"
    /\ result.message.text = "Juego iniciado. Turno del usuario."

\* the running handler answered a successful submitSecretWord call
SubmitAccepted ==
    /\ lastOp = "attributeChangedCallback"
    /\ result.status = "OK"
    /\ result.message.text = "Juego iniciado. Turno de la IA."

\* C8: after a successful startTurnAsUser or submitSecretWord the secret
\* word is the lower-cased word, both letter sets are empty, 6 attempts
\* remain, the game is not over, aiTurn is FALSE after startTurnAsUser and
\* TRUE after submitSecretWord, and the machine is in UserTurn or AiTurn: a
\* secret word is set.
C8_StartReplacesState ==
    (StartAccepted \/ SubmitAccepted) =>
        /\ secretWord = toLowerCase(lastArg.newValue.params.word.str)
        /\ guessedLetters = {}
        /\ incorrectLetters = {}
        /\ remainingAttempts = _maxAttempts
        /\ ~gameOver
        /\ aiTurn = SubmitAccepted
        /\ secretWord # <<>>

\* C9: startTurnAsUser or submitSecretWord with params absent, without a
\* word, or with a word that is no string returns an ERROR result and
\* leaves the game unchanged.
C9_BadWordRejected ==
    [][\A env \in {e \in ToolEnvelopes :
                      /\ e.tool \in StartTools \cup SubmitTools
                      /\ ~e.params.defined \/ e.params.word.type # "string"} :
          AttributeChanged("message", env)
              => (result'.status = "ERROR" /\ Game' = Game)]_vars

\* C9 witness: a call without a usable word has been refused in a finished
\* game
C9_Witness ==
    /\ lastOp = "attributeChangedCallback"
    /\ result.status = "ERROR"
    /\ result.message.text = "Parámetro \"word\" faltante o inválido."
    /\ gameOver
    /\ ~lastArg.newValue.params.defined

\* the game of the Idle state
Idle ==
    [secretWord |-> <<>>, guessedLetters |-> {}, incorrectLetters |-> {},
     remainingAttempts |-> _maxAttempts, gameOver |-> FALSE, aiTurn |-> FALSE]

\* a step of resetGame, by tool call or by the reset button
ResetStep ==
    \/ ResetClick
    \/ \E env \in {e \in ToolEnvelopes : e.tool \in ResetTools} :
          AttributeChanged("message", env)

\* C10: a step of resetGame leaves the Idle game behind, and resetGame
\* called once more leaves the same game.
C10_ResetIdempotent ==
    [][ResetStep =>
          /\ Game' = Idle
          /\ \A t \in ResetTools :
                GameOf(onToolCall(Begin(This'), t, EmptyParams).this) = Game']_vars

\* C10 witness: resetGame has been answered and the game is Idle, with the
\* view showing it
C10_Witness ==
    /\ result.status = "OK"
    /\ result.message.text = "Juego reiniciado."
    /\ Game = Idle
    /\ view.statusText = "Esperando inicio"

\* C11: in every reachable state every element of guessedLetters occurs
\* in secretWord and no element of incorrectLetters does (occurs as
\* String.includes has it: the host may offer the empty string or a string
\* of several characters as a letter).
C11_LettersMatchWord ==
    /\ \A l \in guessedLetters : includes(secretWord, l)
    /\ \A l \in incorrectLetters : ~includes(secretWord, l)

\* C11 witness: a second game of the host, on another word than the first,
\* with a letter of the word guessed and a foreign letter counted
C11_Witness ==
    /\ secretWord = <<"a", "b">>
    /\ aiTurn
    /\ <<"b">> \in guessedLetters
    /\ <<"c">> \in incorrectLetters
    /\ AIGuessAccepted

\* the running handler accepted a virtual key as a letter of the word
CorrectKey ==
    /\ VirtualKeyAccepted
    /\ sent[1].message.text = "El usuario presionó la letra '${key}', y fue correcta."

\* C12: after a key accepted as a letter of the word, gameOver is TRUE
\* exactly when that key revealed the last hidden letter; then a second
\* 'message' notification, after the narration of the key, announces the
\* correct guess and names the secret word; otherwise the narration is all
\* that was sent.
C12_WinByKeys ==
    CorrectKey =>
        /\ sent[1].type = "message"
        /\ sent[1].message.key = toLowerCase(lastArg.letter)
        /\ gameOver <=> Revealed(This)
        /\ IF Revealed(This)
           THEN /\ Len(sent) = 2
                /\ sent[2].type = "message"
                /\ sent[2].message.text =
                      "¡El usuario adivinó correctamente la palabra secreta '${secretWord}'!"
                /\ sent[2].message.secretWord = secretWord
           ELSE Len(sent) = 1

\* C12 witness: the word "ab" has been guessed by its two letters, without
\* a miss, and the last key was b
C12_Witness ==
    /\ CorrectKey
    /\ secretWord = <<"a", "b">>
    /\ guessedLetters = {<<"a">>, <<"b">>}
    /\ incorrectLetters = {}
    /\ lastArg.letter = <<"b">>
    /\ gameOver
    /\ Len(sent) = 2

\* C13: after a change of the message attribute: when the value parsed to
\* an object with a non-empty tool, onToolCall(tool, params) was invoked,
\* and nothing else, and exactly one tool_response {type, tool, params,
\* response} carrying its result was sent; otherwise (JSON without a tool,
\* or no JSON) the raw value was passed to onMessageFromShell, and nothing
\* else, and nothing was sent.
C13_Dispatch ==
    (lastOp = "attributeChangedCallback" /\ lastArg.name = "message") =>
        LET newValue == lastArg.newValue
        IN  IF newValue.json = "object" /\ newValue.tool # ""
            THEN /\ handlers = <<[handler |-> "onToolCall",
                                  toolName |-> newValue.tool,
                                  params |-> newValue.params]>>
                 /\ result.status \in {"OK", "ERROR"}
                 /\ sent = <<[type |-> "tool_response", tool |-> newValue.tool,
                              params |-> newValue.params, response |-> result]>>
            ELSE /\ handlers = <<[handler |-> "onMessageFromShell",
                                  message |-> newValue]>>
                 /\ sent = <<>>
                 /\ result = NoResult

\* C13 witness: during a game, a value that is JSON but carries no tool
\* went to onMessageFromShell
C13_Witness ==
    /\ lastOp = "attributeChangedCallback"
    /\ lastArg.name = "message"
    /\ lastArg.newValue.json = "object"
    /\ lastArg.newValue.tool = ""
    /\ handlers # <<>>
    /\ handlers[1].handler = "onMessageFromShell"
    /\ secretWord # <<>>
    /\ sent = <<>>

\* the tool envelopes whose tool is none of the recognized names
UnknownEnvelopes ==
    {env \in ToolEnvelopes :
        env.tool \notin StartTools \cup GuessTools \cup SubmitTools \cup ResetTools}

\* C14: a tool call under a name that is none of the recognized ones
\* returns an ERROR result whose message carries that name, and leaves the
\* game unchanged.
C14_UnknownTool ==
    [][\A env \in UnknownEnvelopes :
          AttributeChanged("message", env) =>
              /\ result'.status = "ERROR"
              /\ result'.message.text = "Tool no reconocida: ${toolName}"
              /\ result'.message.toolName = env.tool
              /\ Game' = Game]_vars

\* C14 witness: during a game of the host, GuessLetter (no name of the
\* switch) has been refused
C14_Witness ==
    /\ lastOp = "attributeChangedCallback"
    /\ result.status = "ERROR"
    /\ result.message.text = "Tool no reconocida: ${toolName}"
    /\ result.message.toolName = "GuessLetter"
    /\ aiTurn
    /\ secretWord # <<>>
    /\ incorrectLetters # {}

\* C15 as stated: a virtual key rejected because it is the AI's turn, the
\* game is over, no secret word is set or the letter was already tried
\* leaves the game unchanged and sends exactly one 'message' notification.
C15_RejectedKeyNarrated ==
    [][\A letter \in KeyInputs :
          (/\ VirtualKey(letter)
           /\ \/ aiTurn
              \/ gameOver
              \/ secretWord = <<>>
              \/ toLowerCase(letter) \in guessedLetters \cup incorrectLetters)
              => /\ Game' = Game
                 /\ Len(sent') = 1
                 /\ sent'[1].type = "message"]_vars

\* C15 as amended: a virtual key rejected because it is the AI's turn, the
\* game is over or no secret word is set, or because it is no letter,
\* leaves the game unchanged and sends nothing; a key rejected because the
\* letter was already tried leaves the game unchanged and sends exactly one
\* 'message' notification, saying so; an accepted key changes the game and
\* sends its narration first.
C15_KeyNarration ==
    [][\A letter \in KeyInputs :
          VirtualKey(letter) =>
              LET key == toLowerCase(letter)
              IN  IF aiTurn \/ gameOver \/ secretWord = <<>> \/ ~KeyPattern(key)
                  THEN Game' = Game /\ sent' = <<>>
                  ELSE IF key \in guessedLetters \cup incorrectLetters
                  THEN /\ Game' = Game
                       /\ Len(sent') = 1
                       /\ sent'[1].type = "message"
                       /\ sent'[1].message.text =
                             "El usuario ya había intentado la letra '${key}'. Ignorada."
                       /\ sent'[1].message.key = key
                  ELSE /\ Game' # Game
                       /\ Len(sent') >= 1
                       /\ sent'[1].type = "message"
                       /\ sent'[1].message.key = key]_vars

\* C15 witness: in a running game of the host a letter key that had not
\* been tried was pressed; nothing was recorded and nothing sent
C15_Witness ==
    /\ aiTurn
    /\ ~gameOver
    /\ secretWord # <<>>
    /\ lastOp = "_handleVirtualKey"
    /\ KeyPattern(toLowerCase(lastArg.letter))
    /\ toLowerCase(lastArg.letter) \notin guessedLetters \cup incorrectLetters
    /\ sent = <<>>

\* C16: after a guessLetter envelope delivered through the message
\* attribute exactly one message has gone to the host: the tool_response
\* carrying the result of the call; no 'message' narration, also when the
\* guess ended the game.
C16_OneResponsePerGuess ==
    (/\ lastOp = "attributeChangedCallback"
     /\ lastArg.name = "message"
     /\ lastArg.newValue.json = "object"
     /\ lastArg.newValue.tool \in GuessTools) =>
        /\ Len(sent) = 1
        /\ sent[1].type = "tool_response"
        /\ sent[1].response = result
        /\ result.status \in {"OK", "ERROR"}
        /\ \A i \in 1..Len(sent) : sent[i].type # "message"

\* C16 witness: a guessLetter call has lost the game for the host, and the
\* tool_response is all that was sent
C16_Witness ==
    /\ AIGuessAccepted
    /\ lastArg.newValue.tool \in GuessTools
    /\ gameOver
    /\ remainingAttempts = 0
    /\ result.response.gameOver
    /\ ~result.response.won
    /\ Len(sent) = 1

\* C17: the most recently rendered view shows the letter picker only in
\* UserTurn (aiTurn false, secret word set, gameOver false); once the game is
\* over the view has no letter picker and its status reads game over.
C17_ViewMatchesState ==
    view.rendered =>
        /\ view.keyboard => (~aiTurn /\ secretWord # <<>> /\ ~gameOver)
        /\ gameOver => (~view.keyboard /\ view.statusText = "Partida terminada")

\* C18: remainingAttempts is 6 minus the number of incorrect letters, and the
\* drawing stage the renderer computed is that number, within 0..6.
C18_AttemptsCountIncorrect ==
    /\ remainingAttempts = _maxAttempts - Cardinality(incorrectLetters)
    /\ view.rendered =>
          /\ view.fails = Cardinality(incorrectLetters)
          /\ view.fails \in 0.._maxAttempts

\* C18 witness: the third wrong key of a human game has been recorded and
\* drawn
C18_Witness ==
    /\ VirtualKeyAccepted
    /\ ~aiTurn
    /\ secretWord # <<>>
    /\ Cardinality(incorrectLetters) = 3
    /\ remainingAttempts = 3
    /\ view.fails = 3

\* C19: a guessLetter response reports won = true only when the letter just
\* guessed occurs in the secret word; a guess counted as incorrect never
\* answers gameOver: true with won: true.
C19_WonOnlyOnCorrectLetter ==
    (AIGuessAccepted /\ result.response.won) =>
        /\ includes(secretWord, result.message.letter)
        /\ result.message.correctness = "correcta"
        /\ result.message.letter \notin incorrectLetters

\* the guess the last callback accepted, on either path
GuessAccepted == AIGuessAccepted \/ VirtualKeyAccepted

AcceptedLetter ==
    IF AIGuessAccepted THEN result.message.letter ELSE sent[1].message.key

\* the single-character letters tried in the current game
SingleTried == {l \in guessedLetters \cup incorrectLetters : Len(l) = 1}

DistinctLetters(word) == {<<word[i]>> : i \in 1..Len(word)}

\* C20: every game with a non-empty word ends: each accepted
\* single-character guess, by key or by guessLetter, is made while the game
\* is not over, keeps the word and adds one letter not tried before; the
\* letters tried never exceed the distinct letters of the word plus 6, and
\* the game is over as soon as 6 letters are incorrect or every letter of
\* the word is guessed, so no further guess is accepted.
C20_GameTerminates ==
    [][(/\ GuessAccepted'
        /\ Len(AcceptedLetter') = 1
        /\ secretWord # <<>>) =>
            /\ ~gameOver
            /\ secretWord' = secretWord
            /\ AcceptedLetter' \notin SingleTried
            /\ SingleTried' = SingleTried \cup {AcceptedLetter'}
            /\ Cardinality(SingleTried') <=
                  Cardinality(DistinctLetters(secretWord)) + _maxAttempts
            /\ (\/ Cardinality(incorrectLetters') >= _maxAttempts
                \/ DistinctLetters(secretWord) \subseteq guessedLetters')
                  => gameOver']_vars

\* C20 witness: the longest human game of a two-letter word: five wrong
\* keys and both letters, the last key ending the game
C20_Witness ==
    /\ VirtualKeyAccepted
    /\ gameOver
    /\ Cardinality(DistinctLetters(secretWord)) = 2
    /\ Cardinality(SingleTried) = 2 + _maxAttempts - 1

\* every guessLetter call answered won: true on a non-empty word guessed a
\* letter of the word
WonOnNonEmptyWord ==
    (AIGuessAccepted /\ result.response.won /\ secretWord # <<>>) =>
        /\ includes(secretWord, result.message.letter)
        /\ result.message.correctness = "correcta"

(***************************************************************************)
(* The host capability failing: window.agentlet_shell is absent or its     *)
(* sendMessageToShell raises. The callbacks below are the callbacks above  *)
(* when the send they attempt raises an error.                             *)
(***************************************************************************)

\* a key press attempts a send when it passes the guard and the pattern
VirtualKeySends(o, letter) ==
    ~VirtualKeyRefused(o) /\ KeyPattern(toLowerCase(letter))

\* the key is recorded and the narration that follows raises: the listener
\* is left before render() and _checkGameStatus()
VirtualKeyRecordThrown(o, key) ==
    IF includes(o.secretWord, key)
    THEN [o EXCEPT !.guessedLetters = @ \cup {key}]
    ELSE [o EXCEPT !.incorrectLetters = @ \cup {key},
                   !.remainingAttempts = @ - 1]

_handleVirtualKeyThrown(o, letter) ==
    LET key == toLowerCase(letter)
    IN  IF VirtualKeyRefused(o) THEN o
        ELSE IF ~KeyPattern(key) THEN o
        ELSE IF VirtualKeyTried(o, key) THEN o
        ELSE VirtualKeyRecordThrown(o, key)

\* the send of the tool_response raises inside the try: the catch delivers
\* newValue to onMessageFromShell after onToolCall has run
attributeChangedCallbackThrown(o, name, newValue) ==
    IF name # "message" THEN Return(o, NoResult)
    ELSE IF IsToolCall(newValue)
    THEN LET call == onToolCall(o, newValue.tool, newValue.params)
         IN  Return(onMessageFromShell(call.this, newValue), call.ret)
    ELSE Return(onMessageFromShell(o, newValue), NoResult)

\* the host sets the message attribute and the send of the response raises
AttributeChangedThrown(name, newValue) ==
    /\ name = "message"
    /\ IsToolCall(newValue)
    /\ lastOp' = "attributeChangedCallback"
    /\ lastArg' = [name |-> name, newValue |-> newValue]
    /\ LET done == attributeChangedCallbackThrown(Begin(This), name, newValue)
       IN  /\ Becomes(done.this)
           /\ result' = done.ret

\* a click on a key of the letter picker whose narration raises
VirtualKeyThrown(letter) ==
    /\ VirtualKeySends(This, letter)
    /\ lastOp' = "_handleVirtualKey"
    /\ lastArg' = [letter |-> letter]
    /\ Becomes(_handleVirtualKeyThrown(Begin(This), letter))
    /\ result' = NoResult

\* the calls and keys tried against the failing host: each tool once with
\* params it accepts, a second letter, an unknown tool; a key of the word
\* and a key outside it
ThrownEnvelopes ==
    {Envelope("object", t, Params(StrVal(<<"a">>), Undefined)) :
        t \in {"startTurnAsUser", "submitSecretWord"}}
        \cup {Envelope("object", "guessLetter", Params(Undefined, StrVal(<<l>>))) :
                l \in {"a", "b"}}
        \cup {Envelope("object", "resetGame", EmptyParams),
              Envelope("object", "bogusTool", NoParams)}

ThrownKeyInputs == {<<"a">>, <<"b">>}

NextThrow ==
    \/ Next
    \/ \E newValue \in ThrownEnvelopes : AttributeChangedThrown("message", newValue)
    \/ \E letter \in ThrownKeyInputs : VirtualKeyThrown(letter)

SpecThrow == Init /\ [][NextThrow]_vars

\* C21: a change of the message attribute invokes exactly one of the two
\* handlers, onToolCall or onMessageFromShell, never both: an envelope with
\* a tool field is not also delivered to the free-form handler, also when
\* the send of the tool_response raises.
C21_ExactlyOneHandler ==
    (lastOp = "attributeChangedCallback" /\ lastArg.name = "message") =>
        /\ Len(handlers) = 1
        /\ IsToolCall(lastArg.newValue) =>
              \A i \in 1..Len(handlers) : handlers[i].handler = "onToolCall"

====
